---- MODULE Spec2Model ----
(***************************************************************************)
(* Model of the request handlers of src/app.py (Flask service that asks an *)
(* LLM for accreditation recommendations and wraps reports in HTML).       *)
(*                                                                         *)
(* JSON texts and Python values are trees of nodes [t, s, l]:              *)
(*   t = "str" | "num" | "null"      scalar, s its printed form            *)
(*   t = "list"                      l the elements                        *)
(*   t = "obj"                       JSON text object, l its "pair" nodes  *)
(*                                   in textual order, keys may repeat     *)
(*   t = "dict"                      Python dict, l its "pair" nodes in    *)
(*                                   insertion order, keys unique          *)
(*   t = "pair"                      s the key, l = <<value>>              *)
(*   t = "garbage"                   a text that is not JSON               *)
(*   t = "fstr"                      an f-string result, l its slots       *)
(***************************************************************************)
EXTENDS Integers, Sequences, FiniteSets, TLC

(* ------------------------------- bounds -------------------------------- *)
MaxResults == 2      \* longest assessment_results list in a request
MaxRecs == 2         \* longest 'recommendations' list in an LLM answer

(* ------------------------------ JSON trees ----------------------------- *)
Node(t, s, l) == [t |-> t, s |-> s, l |-> l]
Str(s) == Node("str", s, <<>>)
Num(s) == Node("num", s, <<>>)
Null == Node("null", "", <<>>)
List(l) == Node("list", "", l)
Pair(k, v) == Node("pair", k, <<v>>)
Obj(ps) == Node("obj", "", ps)
Dict(ps) == Node("dict", "", ps)
Garbage == Node("garbage", "I'm sorry, I cannot", <<>>)

\* isinstance(v, dict), isinstance(v, list)
IsDict(v) == v.t = "dict"
IsList(v) == v.t = "list"
\* key in d, d[key] for a Python dict d
Keys(d) == {d.l[i].s : i \in 1..Len(d.l)}
HasKey(d, k) == k \in Keys(d)
Item(d, k) == (d.l[CHOOSE i \in 1..Len(d.l) : d.l[i].s = k]).l[1]

\* dict.__setitem__: an existing key keeps its position and takes the new
\* value, a new key is appended
SetItem(ps, k, v) ==
  IF \E i \in 1..Len(ps) : ps[i].s = k
    THEN [i \in 1..Len(ps) |-> IF ps[i].s = k THEN Pair(k, v) ELSE ps[i]]
    ELSE Append(ps, Pair(k, v))

RECURSIVE DictOfPairs(_)
DictOfPairs(ps) ==
  IF ps = <<>> THEN <<>>
  ELSE LET n == Len(ps)
       IN SetItem(DictOfPairs(SubSeq(ps, 1, n - 1)), ps[n].s, ps[n].l[1])

\* json.loads on a text that is JSON: objects become dicts (a repeated key
\* keeps the last value), arrays become lists, scalars stay
RECURSIVE Decode(_)
Decode(n) ==
  CASE n.t = "obj" ->
         Dict(DictOfPairs([i \in 1..Len(n.l) |-> Pair(n.l[i].s, Decode(n.l[i].l[1]))]))
    [] n.t = "list" -> List([i \in 1..Len(n.l) |-> Decode(n.l[i])])
    [] OTHER -> n

\* json.loads(text): [exc, v]
json_loads(text) ==
  IF text.t = "garbage" THEN [exc |-> "JSONDecodeError", v |-> Null]
  ELSE [exc |-> "", v |-> Decode(text)]

\* alphabetical rank of the keys that occur (Flask's jsonify sorts keys)
KeyRank(k) ==
  CASE k = "category" -> 1
    [] k = "error" -> 2
    [] k = "evidence" -> 3
    [] k = "html_report" -> 4
    [] k = "items" -> 5
    [] k = "kpis" -> 6
    [] k = "note" -> 7
    [] k = "recommendations" -> 8
    [] k = "report" -> 9
    [] k = "response" -> 10
    [] OTHER -> 11

RECURSIVE SortPairs(_)
SortPairs(ps) ==
  IF ps = <<>> THEN <<>>
  ELSE LET m == CHOOSE i \in 1..Len(ps) :
                  \A j \in 1..Len(ps) : KeyRank(ps[i].s) <= KeyRank(ps[j].s)
           rest == [j \in 1..(Len(ps) - 1) |-> IF j < m THEN ps[j] ELSE ps[j + 1]]
       IN <<ps[m]>> \o SortPairs(rest)

\* the JSON text jsonify writes for a Python value
RECURSIVE Encode(_)
Encode(v) ==
  CASE v.t = "dict" ->
         Obj(SortPairs([i \in 1..Len(v.l) |-> Pair(v.l[i].s, Encode(v.l[i].l[1]))]))
    [] v.t = "list" -> List([i \in 1..Len(v.l) |-> Encode(v.l[i])])
    [] OTHER -> v

\* Python == on values: dicts compare as mappings, lists as sequences
RECURSIVE PyEq(_, _)
PyEq(a, b) ==
  CASE a.t = "dict" /\ b.t = "dict" ->
         /\ Keys(a) = Keys(b)
         /\ \A k \in Keys(a) : PyEq(Item(a, k), Item(b, k))
    [] a.t = "list" /\ b.t = "list" ->
         /\ Len(a.l) = Len(b.l)
         /\ \A i \in 1..Len(a.l) : PyEq(a.l[i], b.l[i])
    [] OTHER -> a = b

(* ------------------------------ responses ------------------------------ *)
\* return jsonify(value)            (status 200)
\* return jsonify(value), status
jsonify(v, status) ==
  [status |-> status, mimetype |-> "application/json", body |-> Encode(v)]

\* return jsonify({"error": msg}), 500
ErrorResponse(msg) == jsonify(Dict(<<Pair("error", Str(msg))>>), 500)

\* what Flask answers when an exception leaves the view function: the
\* InternalServerError page, which is HTML and carries no 'error' field
UncaughtResponse ==
  [status |-> 500, mimetype |-> "text/html", body |-> Str("Internal Server Error")]

NoResponse == [status |-> 0, mimetype |-> "", body |-> Null]

(* --------------------------- request bodies ---------------------------- *)
\* request.json is a Python value: a dict, or None for a JSON null body
None == Null

\* d.get(key, default) on a dict d
DictGet(d, key, default) == IF HasKey(d, key) THEN Item(d, key) ELSE default

Result(category, score) == Dict(<<Pair("category", Str(category)), Pair("score", Num(score))>>)
\* assessment results as the client sends them; the last has no 'category'
ResultValues ==
  {Result("Teaching", "2"), Result("Teaching", "4"), Result("Research", "2"),
   Dict(<<Pair("score", Num("2"))>>)}

SeqsUpTo(S, n) == UNION {[1..k -> S] : k \in 0..n}

RecommendationBodies ==
  {None, Dict(<<>>)}
    \cup {Dict(<<Pair("assessment_results", List(rs))>>) :
            rs \in SeqsUpTo(ResultValues, MaxResults)}

(* --------------------------- the LLM provider --------------------------- *)
\* client.chat.completions.create either raises (exc is the message of the
\* exception) or returns a response whose message content is a text
Returned(text) == [exc |-> "", content |-> text]
Raised(msg) == [exc |-> msg, content |-> Null]
NoCall == [exc |-> "not called", content |-> Null]

ProviderMessages == {"Connection error.", "Rate limit reached"}

GoodA == Obj(<<Pair("category", Str("A")), Pair("items", List(<<Str("x")>>))>>)
GoodB ==
  Obj(<<Pair("items", List(<<Str("y"), Str("z")>>)), Pair("note", Str("n")),
        Pair("category", Str("B"))>>)
NotMapping == Str("rec")
NoCategory == Obj(<<Pair("items", List(<<>>))>>)
NoItems == Obj(<<Pair("category", Str("A"))>>)
ItemsNotList == Obj(<<Pair("category", Str("A")), Pair("items", Str("x"))>>)
BadTypes == Obj(<<Pair("category", Num("5")), Pair("items", List(<<Num("7")>>))>>)
RecElems == {GoodA, GoodB, NotMapping, NoCategory, NoItems, ItemsNotList, BadTypes}

\* the pairs an answer can carry for each top-level key (none: key omitted)
RecommendationsPairs ==
  {<<>>, <<Pair("recommendations", Str("none"))>>}
    \cup {<<Pair("recommendations", List(l))>> : l \in SeqsUpTo(RecElems, MaxRecs)}
EvidencePairs ==
  {<<>>, <<Pair("evidence", Obj(<<>>))>>, <<Pair("evidence", List(<<>>))>>,
   <<Pair("evidence", List(<<Str("e"), Num("1")>>))>>}
KpisPairs ==
  {<<>>, <<Pair("kpis", Null)>>, <<Pair("kpis", List(<<Str("k1"), Str("k2")>>))>>}

MinimalSet ==
  Obj(<<Pair("recommendations", List(<<GoodA>>)), Pair("evidence", List(<<>>)),
        Pair("kpis", List(<<>>))>>)

\* texts the model lets the provider return to /api/generate-recommendations
RecommendationTexts ==
  {Obj(r \o e \o k) : r \in RecommendationsPairs, e \in EvidencePairs, k \in KpisPairs}
    \cup {Garbage, List(<<>>), Str("ok"), Num("3"), MinimalSet,
          \* a repeated key, and an extra key before the required ones
          Obj(<<Pair("evidence", Str("e")), Pair("note", Str("n")),
                Pair("kpis", List(<<>>)), Pair("evidence", List(<<Str("e")>>)),
                Pair("recommendations", List(<<GoodB, GoodA>>))>>)}

RecommendationCompletions ==
  {Returned(t) : t \in RecommendationTexts} \cup {Raised(m) : m \in ProviderMessages}

\* The answer of the provider is explored in full for the requests of at most
\* one assessment result. The grouping of a longer request is done before the
\* call and is not read by the validation of the answer, so a longer request
\* is paired with one answer of each kind: well-formed, not JSON, JSON of the
\* wrong shape, and an exception.
LongRequestCompletions ==
  {Returned(MinimalSet), Returned(Garbage), Returned(Str("ok")),
   Returned(Obj(<<Pair("recommendations", List(<<GoodA, NotMapping>>)),
                  Pair("evidence", List(<<>>))>>)),
   Raised("Connection error.")}
CompletionsFor(body) ==
  IF Len(DictGet(body, "assessment_results", List(<<>>)).l) <= 1
    THEN RecommendationCompletions
    ELSE LongRequestCompletions

(* -------------------- /api/generate-recommendations -------------------- *)
FString(slots) == Node("fstr", "", slots)
NoText == Str("")

\* str(e) of the AttributeError raised by None.get and by None.strip
NoGet == "'NoneType' object has no attribute 'get'"
NoStrip == "'NoneType' object has no attribute 'strip'"

\* what a view function leaves: its response, what it logged, the steps it
\* took, and its locals results_by_category, prompt and complete_html
Handled(response, log, trace, groups, prompt, html) ==
  [response |-> response, log |-> log, trace |-> trace, groups |-> groups,
   prompt |-> prompt, html |-> html]

\* GroupByCategory with the append replaced by an assignment of [result]
RECURSIVE GroupByCategory_Overwrite(_)
GroupByCategory_Overwrite(assessment_results) ==
  IF assessment_results = <<>> THEN <<>>
  ELSE LET n == Len(assessment_results)
           groups == GroupByCategory_Overwrite(SubSeq(assessment_results, 1, n - 1))
           result == assessment_results[n]
           c == Item(result, "category").s
       IN IF \E i \in 1..Len(groups) : groups[i].s = c
            THEN [i \in 1..Len(groups) |->
                    IF groups[i].s = c THEN Pair(c, List(<<result>>)) ELSE groups[i]]
            ELSE Append(groups, Pair(c, List(<<result>>)))

\* the loop that fills results_by_category, a dict from category to the list
\* of its results
RECURSIVE GroupByCategory(_)
GroupByCategory(assessment_results) ==
  IF assessment_results = <<>> THEN <<>>
  ELSE LET n == Len(assessment_results)
           groups == GroupByCategory(SubSeq(assessment_results, 1, n - 1))
           result == assessment_results[n]
           c == Item(result, "category").s
       IN IF \E i \in 1..Len(groups) : groups[i].s = c
            THEN [i \in 1..Len(groups) |->
                    IF groups[i].s = c
                      THEN Pair(c, List(Append(groups[i].l[1].l, result)))
                      ELSE groups[i]]
            ELSE Append(groups, Pair(c, List(<<result>>)))

required_keys == {"recommendations", "evidence", "kpis"}

\* ValidateRecs leaving the loop after its first element
RECURSIVE ValidateRecs_FirstOnly(_, _)
ValidateRecs_FirstOnly(recs, i) ==
  IF i > Len(recs) \/ i > 1 THEN ""
  ELSE LET rec == recs[i]
       IN IF ~IsDict(rec) \/ ~HasKey(rec, "category") \/ ~HasKey(rec, "items")
            THEN "Invalid recommendation format"
          ELSE IF ~IsList(Item(rec, "items"))
            THEN "Recommendation items must be an array"
          ELSE ValidateRecs_FirstOnly(recs, i + 1)

\* the loop over recommendations['recommendations']: the message of the
\* first ValueError raised, "" when none is
RECURSIVE ValidateRecs(_, _)
ValidateRecs(recs, i) ==
  IF i > Len(recs) THEN ""
  ELSE LET rec == recs[i]
       IN IF ~IsDict(rec) \/ ~HasKey(rec, "category") \/ ~HasKey(rec, "items")
            THEN "Invalid recommendation format"
          ELSE IF ~IsList(Item(rec, "items"))
            THEN "Recommendation items must be an array"
          ELSE ValidateRecs(recs, i + 1)

\* ValidateStructure requiring 'recommendations' only and reading the other
\* two fields with a default of []
ValidateStructure_OptionalKeys(recommendations) ==
  IF ~IsDict(recommendations) THEN "Response is not a dictionary"
  ELSE IF ~HasKey(recommendations, "recommendations") THEN "Missing required keys"
  ELSE IF ~IsList(Item(recommendations, "recommendations"))
    THEN "'recommendations' must be an array"
  ELSE IF ~IsList(DictGet(recommendations, "evidence", List(<<>>)))
    THEN "'evidence' must be an array"
  ELSE IF ~IsList(DictGet(recommendations, "kpis", List(<<>>)))
    THEN "'kpis' must be an array"
  ELSE ValidateRecs(Item(recommendations, "recommendations").l, 1)

\* the structure checks: the message of the ValueError raised, "" when none
ValidateStructure(recommendations) ==
  IF ~IsDict(recommendations) THEN "Response is not a dictionary"
  ELSE IF ~(\A key \in required_keys : HasKey(recommendations, key))
    THEN "Missing required keys"
  ELSE IF ~IsList(Item(recommendations, "recommendations"))
    THEN "'recommendations' must be an array"
  ELSE IF ~IsList(Item(recommendations, "evidence"))
    THEN "'evidence' must be an array"
  ELSE IF ~IsList(Item(recommendations, "kpis"))
    THEN "'kpis' must be an array"
  ELSE ValidateRecs(Item(recommendations, "recommendations").l, 1)

\* ParseAndValidate answering with a dict rebuilt from the required keys
ParseAndValidate_Rebuilt(content) ==
  LET parsed == json_loads(content)
      err == ValidateStructure(parsed.v)
  IN IF parsed.exc = "JSONDecodeError"
       THEN [response |-> ErrorResponse("Failed to generate valid recommendations"),
             log |-> <<"Failed to parse OpenAI response as JSON">>]
     ELSE IF err # ""
       THEN [response |-> ErrorResponse("Invalid recommendations format"),
             log |-> <<"Invalid response format", err>>]
     ELSE [response |->
             jsonify(Dict(<<Pair("recommendations", Item(parsed.v, "recommendations")),
                            Pair("evidence", Item(parsed.v, "evidence")),
                            Pair("kpis", Item(parsed.v, "kpis"))>>), 200),
           log |-> <<>>]

\* ParseAndValidate with the except ValueError clause placed first, which
\* then also takes the JSONDecodeError
ParseAndValidate_ValueErrorFirst(content) ==
  LET parsed == json_loads(content)
      err == ValidateStructure(parsed.v)
  IN IF parsed.exc = "JSONDecodeError"
       THEN [response |-> ErrorResponse("Invalid recommendations format"),
             log |-> <<"Invalid response format", "Expecting value">>]
     ELSE IF err # ""
       THEN [response |-> ErrorResponse("Invalid recommendations format"),
             log |-> <<"Invalid response format", err>>]
     ELSE [response |-> jsonify(parsed.v, 200), log |-> <<>>]

\* the inner try: parse, validate, answer; [response, log]
ParseAndValidate(content) ==
  LET parsed == json_loads(content)
      err == ValidateStructure(parsed.v)
  IN IF parsed.exc = "JSONDecodeError"
       THEN [response |-> ErrorResponse("Failed to generate valid recommendations"),
             log |-> <<"Failed to parse OpenAI response as JSON">>]
     ELSE IF err # ""
       THEN [response |-> ErrorResponse("Invalid recommendations format"),
             log |-> <<"Invalid response format", err>>]
     ELSE [response |-> jsonify(parsed.v, 200), log |-> <<>>]

\* CallAndAnswer calling the provider a second time after a failure
CallAndAnswer_Retry(outcome) ==
  IF outcome.exc # ""
    THEN [response |-> ErrorResponse(outcome.exc),
          log |-> <<"Error generating recommendations", outcome.exc>>,
          trace |-> <<"prompt", "call", "call", "respond">>]
  ELSE LET r == ParseAndValidate(outcome.content)
       IN [response |-> r.response, log |-> r.log,
           trace |-> <<"prompt", "call", "validate", "respond">>]

\* CallAndAnswer answering with whatever parses, the structure unchecked
CallAndAnswer_NoValidate(outcome) ==
  IF outcome.exc # ""
    THEN [response |-> ErrorResponse(outcome.exc),
          log |-> <<"Error generating recommendations", outcome.exc>>,
          trace |-> <<"prompt", "call", "respond">>]
  ELSE IF json_loads(outcome.content).exc # ""
    THEN [response |-> ErrorResponse("Failed to generate valid recommendations"),
          log |-> <<"Failed to parse OpenAI response as JSON">>,
          trace |-> <<"prompt", "call", "respond">>]
  ELSE [response |-> jsonify(json_loads(outcome.content).v, 200), log |-> <<>>,
        trace |-> <<"prompt", "call", "respond">>]

\* the outer try around the completion call: [response, log, trace]
CallAndAnswer(outcome) ==
  IF outcome.exc # ""
    THEN [response |-> ErrorResponse(outcome.exc),
          log |-> <<"Error generating recommendations", outcome.exc>>,
          trace |-> <<"prompt", "call", "respond">>]
  ELSE LET r == ParseAndValidate(outcome.content)
       IN [response |-> r.response, log |-> r.log,
           trace |-> <<"prompt", "call", "validate", "respond">>]

\* the exception raised before the try block is entered, "" when none
RaisedBeforeTry(data) ==
  IF ~IsDict(data) THEN "AttributeError"
  ELSE IF \E i \in 1..Len(DictGet(data, "assessment_results", List(<<>>)).l) :
            ~HasKey(DictGet(data, "assessment_results", List(<<>>)).l[i], "category")
    THEN "KeyError"
  ELSE ""

\* the view function
generate_recommendations(data, outcome) ==
  IF RaisedBeforeTry(data) # ""
    THEN Handled(UncaughtResponse, <<RaisedBeforeTry(data)>>, <<"respond">>,
                 Dict(<<>>), NoText, NoText)
  ELSE LET results_by_category ==
             Dict(GroupByCategory(DictGet(data, "assessment_results", List(<<>>)).l))
           r == CallAndAnswer(outcome)
       IN Handled(r.response, r.log, r.trace, results_by_category,
                  FString(<<results_by_category>>), NoText)

(* ------------------- institution info, other bodies -------------------- *)
InfoFields ==
  {"institutionName", "programName", "yearEstablished", "totalGraduates",
   "firstGraduatingBatch", "currentStudents", "facultyMembers", "programTracks",
   "creditHours"}
\* the fields the HTML template reads
TemplateFields == {"institutionName", "programName"}

FieldValue(f) ==
  CASE f = "institutionName" -> Str("Prince Sultan University")
    [] f = "programName" -> Str("Architecture")
    [] f = "yearEstablished" -> Num("1999")
    [] OTHER -> Num("12")

\* the pairs of an institution_info holding the given fields
RECURSIVE InfoPairs(_)
InfoPairs(keys) ==
  IF keys = {} THEN <<>>
  ELSE LET k == CHOOSE x \in keys : TRUE
       IN <<Pair(k, FieldValue(k))>> \o InfoPairs(keys \ {k})

\* institution_info as sent: a JSON object with any subset of the fields, or
\* null
InstitutionInfos(fields) ==
  {None} \cup {Dict(InfoPairs(D)) : D \in SUBSET fields}

\* the body with the pairs ps, without and with an 'institution_info'
WithInfo(ps, fields) ==
  {Dict(ps)} \cup
  {Dict(<<Pair("institution_info", info)>> \o ps) : info \in InstitutionInfos(fields)}

ReportBodies == {None} \cup WithInfo(<<>>, InfoFields)
PdfBodies ==
  {None} \cup WithInfo(<<>>, TemplateFields)
    \cup WithInfo(<<Pair("html_content", Str("<h1>Report</h1>"))>>, TemplateFields)
ShareBodies ==
  {None} \cup WithInfo(<<>>, TemplateFields)
    \cup WithInfo(<<Pair("report", None)>>, TemplateFields)
    \cup WithInfo(<<Pair("report", Str("# Report"))>>, TemplateFields)
    \cup WithInfo(<<Pair("report", Str("# Report")), Pair("email", Str("dean@psu.edu.sa"))>>,
                  TemplateFields)
AskBodies ==
  {None, Dict(<<>>), Dict(<<Pair("question", Str("Which body accredits?"))>>)}

TextCompletions ==
  {Returned(Str("# Assessment")), Returned(Str(""))} \cup {Raised(m) : m \in ProviderMessages}

\* datetime.now().strftime('%B %d, %Y')
Dates == {"November 02, 2026", "November 03, 2026"}

\* {value} inside an f-string: str(value), and str(None) is 'None'
Format(v) == IF v.t = "null" THEN Str("None") ELSE v

\* {institution_info.get(key, default)} inside an f-string
InfoSlot(institution_info, key, default) ==
  Format(DictGet(institution_info, key, Str(default)))

\* Caught answering with a fixed message instead of str(e)
Caught_Generic(msg, trace) ==
  Handled(ErrorResponse("Internal server error"), <<"Error", msg>>, trace, Dict(<<>>),
          NoText, NoText)

\* the answer of the except clause that closes a view function
Caught(msg, trace) ==
  Handled(ErrorResponse(msg), <<"Error", msg>>, trace, Dict(<<>>), NoText, NoText)

(* ------------------------- /api/generate-report ------------------------ *)
\* the fields the prompt lists, in the order it lists them
PromptFields ==
  <<"institutionName", "programName", "yearEstablished", "totalGraduates",
    "firstGraduatingBatch", "currentStudents", "facultyMembers", "programTracks",
    "creditHours">>

generate_report(data, outcome) ==
  IF ~IsDict(data) THEN Caught(NoGet, <<"respond">>)
  ELSE LET institution_info == DictGet(data, "institution_info", Dict(<<>>))
           prompt == FString([i \in 1..Len(PromptFields) |->
                                InfoSlot(institution_info, PromptFields[i], "-")])
       IN IF ~IsDict(institution_info) THEN Caught(NoGet, <<"respond">>)
          ELSE IF outcome.exc # ""
            THEN [Caught(outcome.exc, <<"prompt", "call", "respond">>) EXCEPT !.prompt = prompt]
          ELSE Handled(jsonify(Dict(<<Pair("report", outcome.content)>>), 200), <<>>,
                       <<"prompt", "call", "respond">>, Dict(<<>>), prompt, NoText)

(* -------------------------- /api/generate-pdf -------------------------- *)
\* Template with the header h2 reading 'institutionName'
Template_WrongKey(institution_info, date, content) ==
  FString(<<InfoSlot(institution_info, "programName", "Program"),
            InfoSlot(institution_info, "institutionName", "Program Name"),
            InfoSlot(institution_info, "institutionName", "Institution Name"),
            Str(date), Format(content)>>)

\* Template whose title carries the date when no program name is given
Template_DatedTitle(institution_info, date, content) ==
  FString(<<InfoSlot(institution_info, "programName", date),
            InfoSlot(institution_info, "programName", "Program Name"),
            InfoSlot(institution_info, "institutionName", "Institution Name"),
            Str(date), Format(content)>>)

\* the f-string template: title, header h2, header p, date, report content
Template(institution_info, date, content) ==
  FString(<<InfoSlot(institution_info, "programName", "Program"),
            InfoSlot(institution_info, "programName", "Program Name"),
            InfoSlot(institution_info, "institutionName", "Institution Name"),
            Str(date), Format(content)>>)

\* generate_pdf whose except clause forgets the 500
generate_pdf_NoStatus(data, date) ==
  IF ~IsDict(data)
    THEN Handled(jsonify(Dict(<<Pair("error", Str(NoGet))>>), 200), <<"Error", NoGet>>,
                 <<"respond">>, Dict(<<>>), NoText, NoText)
  ELSE LET html_content == DictGet(data, "html_content", None)
           institution_info == DictGet(data, "institution_info", Dict(<<>>))
           complete_html == Template(institution_info, date, html_content)
       IN IF ~IsDict(institution_info)
            THEN Handled(jsonify(Dict(<<Pair("error", Str(NoGet))>>), 200),
                         <<"Error", NoGet>>, <<"respond">>, Dict(<<>>), NoText, NoText)
          ELSE Handled(jsonify(Dict(<<Pair("html_report", complete_html)>>), 200), <<>>,
                       <<"assemble", "respond">>, Dict(<<>>), NoText, complete_html)

generate_pdf(data, date) ==
  IF ~IsDict(data) THEN Caught(NoGet, <<"respond">>)
  ELSE LET html_content == DictGet(data, "html_content", None)
           institution_info == DictGet(data, "institution_info", Dict(<<>>))
           complete_html == Template(institution_info, date, html_content)
       IN IF ~IsDict(institution_info) THEN Caught(NoGet, <<"respond">>)
          ELSE Handled(jsonify(Dict(<<Pair("html_report", complete_html)>>), 200), <<>>,
                       <<"assemble", "respond">>, Dict(<<>>), NoText, complete_html)

(* -------------------------- /api/share-report -------------------------- *)
\* markdown.markdown(text): the HTML of a Markdown text, '' for ''
markdown(text) == IF text.s = "" THEN Str("") ELSE Node("html", text.s, <<>>)

\* share_report assembling the document from the unconverted report
share_report_RawReport(data, date) ==
  IF ~IsDict(data) THEN Caught(NoGet, <<"respond">>)
  ELSE LET institution_info == DictGet(data, "institution_info", Dict(<<>>))
           report == DictGet(data, "report", Str(""))
           complete_html == Template(institution_info, date, report)
       IN IF ~IsDict(institution_info) THEN Caught(NoGet, <<"respond">>)
          ELSE Handled(jsonify(Dict(<<Pair("html_report", complete_html)>>), 200), <<>>,
                       <<"assemble", "respond">>, Dict(<<>>), NoText, complete_html)

share_report(data, date) ==
  IF ~IsDict(data) THEN Caught(NoGet, <<"respond">>)
  ELSE LET institution_info == DictGet(data, "institution_info", Dict(<<>>))
           report == DictGet(data, "report", Str(""))
           html_report == markdown(report)
           complete_html == Template(institution_info, date, html_report)
       IN IF report.t = "null" THEN Caught(NoStrip, <<"respond">>)
          ELSE IF ~IsDict(institution_info) THEN Caught(NoGet, <<"markdown", "respond">>)
          ELSE Handled(jsonify(Dict(<<Pair("html_report", complete_html)>>), 200), <<>>,
                       <<"markdown", "assemble", "respond">>, Dict(<<>>), NoText,
                       complete_html)

(* ------------------------------ /api/ask ------------------------------- *)
ask_ai(data, outcome) ==
  IF ~IsDict(data) THEN Caught(NoGet, <<"respond">>)
  ELSE LET question == DictGet(data, "question", Str(""))
           prompt == FString(<<Format(question)>>)
       IN IF outcome.exc # ""
            THEN [Caught(outcome.exc, <<"prompt", "call", "respond">>) EXCEPT !.prompt = prompt]
          ELSE Handled(jsonify(Dict(<<Pair("response", outcome.content)>>), 200), <<>>,
                       <<"prompt", "call", "respond">>, Dict(<<>>), prompt, NoText)

(* ----------------------------- the service ----------------------------- *)
VARIABLES
  pc,                    \* "idle", "dispatched" (a view function is about to
                         \* run), "responded" (it has returned)
  request,               \* [endpoint, json] of the request being handled
  completion,            \* what the completion call of this request did
  response,              \* what the view function returned
  log,                   \* what it passed to app.logger.error
  trace,                 \* the steps it took, in order
  results_by_category,   \* locals of the view function
  prompt,
  complete_html,
  ASSESSMENT_QUESTIONS,  \* the question bank loaded at import
  failed_before          \* history: an earlier request ended in status 500

vars ==
  <<pc, request, completion, response, log, trace, results_by_category, prompt,
    complete_html, ASSESSMENT_QUESTIONS, failed_before>>

Endpoints ==
  {"/api/generate-recommendations", "/api/generate-report", "/api/generate-pdf",
   "/api/share-report", "/api/ask"}

Bodies(endpoint) ==
  CASE endpoint = "/api/generate-recommendations" -> RecommendationBodies
    [] endpoint = "/api/generate-report" -> ReportBodies
    [] endpoint = "/api/generate-pdf" -> PdfBodies
    [] endpoint = "/api/share-report" -> ShareBodies
    [] endpoint = "/api/ask" -> AskBodies

NoRequest == [endpoint |-> "", json |-> None]
QuestionBank == List(<<Str("Is the mission published?"), Str("Are outcomes measured?")>>)

Init ==
  /\ pc = "idle"
  /\ request = NoRequest
  /\ completion = NoCall
  /\ response = NoResponse
  /\ log = <<>>
  /\ trace = <<>>
  /\ results_by_category = Dict(<<>>)
  /\ prompt = NoText
  /\ complete_html = NoText
  /\ ASSESSMENT_QUESTIONS = QuestionBank
  /\ failed_before = FALSE

\* a POST arrives and Flask routes it to its view function
Dispatch ==
  /\ pc = "idle"
  /\ \E endpoint \in Endpoints : \E data \in Bodies(endpoint) :
       request' = [endpoint |-> endpoint, json |-> data]
  /\ pc' = "dispatched"
  /\ UNCHANGED <<completion, response, log, trace, results_by_category, prompt,
                 complete_html, ASSESSMENT_QUESTIONS, failed_before>>

\* Return with an except clause that empties the module-level question bank
Return_ClobberOnError(h, outcome) ==
  /\ pc' = "responded"
  /\ response' = h.response
  /\ log' = h.log
  /\ trace' = h.trace
  /\ results_by_category' = h.groups
  /\ prompt' = h.prompt
  /\ complete_html' = h.html
  /\ completion' = IF \E i \in 1..Len(h.trace) : h.trace[i] = "call" THEN outcome ELSE NoCall
  /\ ASSESSMENT_QUESTIONS' =
       IF h.response.status = 500 THEN List(<<>>) ELSE ASSESSMENT_QUESTIONS
  /\ UNCHANGED <<request, failed_before>>

\* the view function ran to its return
Return(h, outcome) ==
  /\ pc' = "responded"
  /\ response' = h.response
  /\ log' = h.log
  /\ trace' = h.trace
  /\ results_by_category' = h.groups
  /\ prompt' = h.prompt
  /\ complete_html' = h.html
  /\ completion' = IF \E i \in 1..Len(h.trace) : h.trace[i] = "call" THEN outcome ELSE NoCall
  /\ UNCHANGED <<request, ASSESSMENT_QUESTIONS, failed_before>>

GenerateRecommendations ==
  /\ pc = "dispatched"
  /\ request.endpoint = "/api/generate-recommendations"
  /\ \E outcome \in (IF RaisedBeforeTry(request.json) = ""
                       THEN CompletionsFor(request.json) ELSE {NoCall}) :
       Return(generate_recommendations(request.json, outcome), outcome)

GenerateReport ==
  /\ pc = "dispatched"
  /\ request.endpoint = "/api/generate-report"
  /\ \E outcome \in TextCompletions :
       Return(generate_report(request.json, outcome), outcome)

GeneratePdf ==
  /\ pc = "dispatched"
  /\ request.endpoint = "/api/generate-pdf"
  /\ \E date \in Dates : Return(generate_pdf(request.json, date), NoCall)

ShareReport ==
  /\ pc = "dispatched"
  /\ request.endpoint = "/api/share-report"
  /\ \E date \in Dates : Return(share_report(request.json, date), NoCall)

AskAi ==
  /\ pc = "dispatched"
  /\ request.endpoint = "/api/ask"
  /\ \E outcome \in TextCompletions : Return(ask_ai(request.json, outcome), outcome)

\* Send with results_by_category kept, as a module-level dict would be
Send_KeepsGroups ==
  /\ pc = "responded"
  /\ pc' = "idle"
  /\ request' = NoRequest
  /\ completion' = NoCall
  /\ response' = NoResponse
  /\ log' = <<>>
  /\ trace' = <<>>
  /\ prompt' = NoText
  /\ complete_html' = NoText
  /\ failed_before' = (failed_before \/ response.status = 500)
  /\ UNCHANGED <<ASSESSMENT_QUESTIONS, results_by_category>>

\* the response went out and the request's values are gone
Send ==
  /\ pc = "responded"
  /\ pc' = "idle"
  /\ request' = NoRequest
  /\ completion' = NoCall
  /\ response' = NoResponse
  /\ log' = <<>>
  /\ trace' = <<>>
  /\ results_by_category' = Dict(<<>>)
  /\ prompt' = NoText
  /\ complete_html' = NoText
  /\ failed_before' = (failed_before \/ response.status = 500)
  /\ UNCHANGED ASSESSMENT_QUESTIONS

Next ==
  \/ Dispatch
  \/ GenerateRecommendations
  \/ GenerateReport
  \/ GeneratePdf
  \/ ShareReport
  \/ AskAi
  \/ Send

Spec == Init /\ [][Next]_vars

(* ------------------------ vocabulary of the claims ---------------------- *)
RecommendationsEndpoint == "/api/generate-recommendations"
\* the 'error' strings that stand for the two validation failures
MalformedResponse == "Failed to generate valid recommendations"
SchemaViolation == "Invalid recommendations format"

Responded(endpoint) == pc = "responded" /\ request.endpoint = endpoint
\* the completion call of this request returned a text
TextReturned == completion.exc = ""
\* it raised
CallFailed == completion.exc \notin {"", "not called"}
Parsed == json_loads(completion.content)
\* /api/generate-recommendations got a text from the provider
RecsAnswered == Responded(RecommendationsEndpoint) /\ TextReturned

\* a JSON object with the single field 'error', a string
IsErrorBody(r) ==
  /\ r.mimetype = "application/json"
  /\ r.body.t = "obj"
  /\ Len(r.body.l) = 1
  /\ r.body.l[1].s = "error"
  /\ r.body.l[1].l[1].t = "str"
IsError(r, msg) == r.status = 500 /\ IsErrorBody(r) /\ r.body.l[1].l[1].s = msg
IsSuccess(r) == r.status = 200 /\ r.mimetype = "application/json"
Calls == Cardinality({i \in 1..Len(trace) : trace[i] = "call"})

\* the shape the claims call well-formed: containers only
WellFormedRec(rec) ==
  IsDict(rec) /\ HasKey(rec, "category") /\ HasKey(rec, "items") /\ IsList(Item(rec, "items"))
WellFormed(v) ==
  /\ IsDict(v)
  /\ \A key \in {"recommendations", "evidence", "kpis"} : HasKey(v, key) /\ IsList(Item(v, key))
  /\ \A i \in 1..Len(Item(v, "recommendations").l) :
       WellFormedRec(Item(v, "recommendations").l[i])

\* C1: a text that parses to a well-formed RecommendationSet is answered
\* with status 200 and a body that reads back as the parsed value, nothing
\* added, dropped, coerced, defaulted, and no list reordered; the minimal set
\* comes back as itself.
C1_RoundTrip ==
  RecsAnswered =>
    LET parsed == Parsed
        read == json_loads(response.body)
    IN (parsed.exc = "" /\ WellFormed(parsed.v)) =>
         /\ IsSuccess(response)
         /\ read.exc = ""
         /\ PyEq(read.v, parsed.v)
         /\ (completion.content = MinimalSet => PyEq(read.v, Decode(MinimalSet)))

C1_Witness ==
  /\ RecsAnswered
  /\ completion.content = MinimalSet
  /\ response.status = 200
  /\ Item(json_loads(response.body).v, "recommendations").l[1] = Decode(GoodA)

\* C2: a text that parses to a mapping lacking any of the three required
\* fields is answered with status 500 and the single 'error' string of a
\* schema violation, never with 200.
C2_MissingKeys ==
  RecsAnswered =>
    LET parsed == Parsed
    IN (parsed.exc = "" /\ IsDict(parsed.v)
          /\ ~({"recommendations", "evidence", "kpis"} \subseteq Keys(parsed.v))) =>
         /\ IsError(response, SchemaViolation)
         /\ response.status # 200
         /\ log = <<"Invalid response format", "Missing required keys">>

C2_Witness ==
  /\ RecsAnswered
  /\ Parsed.exc = ""
  /\ IsDict(Parsed.v)
  /\ Keys(Parsed.v) = {"recommendations", "kpis"}
  /\ Item(Parsed.v, "recommendations") = List(<<Decode(GoodA)>>)
  /\ IsList(Item(Parsed.v, "kpis"))
  /\ IsError(response, SchemaViolation)

\* C3: a text that is not JSON is answered with status 500 and the error of
\* a malformed response, which is not the error of a schema violation.
C3_Malformed ==
  (RecsAnswered /\ Parsed.exc = "JSONDecodeError") =>
    /\ IsError(response, MalformedResponse)
    /\ ~IsError(response, SchemaViolation)
    /\ log = <<"Failed to parse OpenAI response as JSON">>

C3_Witness ==
  RecsAnswered /\ completion.content = Garbage /\ IsError(response, MalformedResponse)

\* the first element of recs that fails a check, 0 when none does
FirstBad(recs) ==
  IF \E i \in 1..Len(recs) : ~WellFormedRec(recs[i])
    THEN CHOOSE i \in 1..Len(recs) :
           ~WellFormedRec(recs[i]) /\ \A j \in 1..(i - 1) : WellFormedRec(recs[j])
    ELSE 0

\* the ValueError of the first check that fails, the checks taken in the
\* order: mapping, required keys, the three containers, then the elements of
\* 'recommendations' one after the other
FirstFailing(v) ==
  CASE ~IsDict(v) -> "Response is not a dictionary"
    [] IsDict(v) /\ ~({"recommendations", "evidence", "kpis"} \subseteq Keys(v)) ->
         "Missing required keys"
    [] OTHER ->
         LET recs == Item(v, "recommendations")
             b == FirstBad(recs.l)
         IN CASE ~IsList(recs) -> "'recommendations' must be an array"
              [] IsList(recs) /\ ~IsList(Item(v, "evidence")) -> "'evidence' must be an array"
              [] IsList(recs) /\ IsList(Item(v, "evidence")) /\ ~IsList(Item(v, "kpis")) ->
                   "'kpis' must be an array"
              [] OTHER ->
                   IF b = 0 THEN ""
                   ELSE IF IsDict(recs.l[b]) /\ HasKey(recs.l[b], "category")
                           /\ HasKey(recs.l[b], "items")
                     THEN "Recommendation items must be an array"
                   ELSE "Invalid recommendation format"

\* one of the conditions the claim lists holds of v
ShapeBroken(v) ==
  \/ ~IsDict(v)
  \/ \E key \in {"recommendations", "evidence", "kpis"} : HasKey(v, key) /\ ~IsList(Item(v, key))
  \/ /\ HasKey(v, "recommendations")
     /\ IsList(Item(v, "recommendations"))
     /\ FirstBad(Item(v, "recommendations").l) # 0

\* C4: a parsed answer that is not a mapping, or has a required field that
\* is not a list, or has an element of 'recommendations' that is not a
\* mapping, lacks 'category' or 'items', or whose 'items' is not a list, is
\* answered as a schema violation, and the ValueError raised is the one of
\* the first check that fails.
C4_FirstCheckDecides ==
  RecsAnswered =>
    LET parsed == Parsed
    IN (parsed.exc = "" /\ ShapeBroken(parsed.v)) =>
         /\ IsError(response, SchemaViolation)
         /\ log = <<"Invalid response format", FirstFailing(parsed.v)>>

\* the first element has a non-list 'items', the second is not a mapping
C4_Witness ==
  /\ RecsAnswered
  /\ Parsed.exc = ""
  /\ IsDict(Parsed.v)
  /\ Keys(Parsed.v) = {"recommendations", "evidence", "kpis"}
  /\ IsList(Item(Parsed.v, "evidence"))
  /\ IsList(Item(Parsed.v, "kpis"))
  /\ Item(Parsed.v, "recommendations") = List(<<Decode(ItemsNotList), NotMapping>>)
  /\ log = <<"Invalid response format", "Recommendation items must be an array">>
  /\ IsError(response, SchemaViolation)

\* the RecommendationSet shape with its element types
ConformsExactly(v) ==
  /\ WellFormed(v)
  /\ \A i \in 1..Len(Item(v, "recommendations").l) :
       LET rec == Item(v, "recommendations").l[i]
       IN /\ Item(rec, "category").t = "str"
          /\ \A j \in 1..Len(Item(rec, "items").l) : Item(rec, "items").l[j].t = "str"
  /\ \A key \in {"evidence", "kpis"} :
       \A j \in 1..Len(Item(v, key).l) : Item(v, key).l[j].t = "str"

\* C5: every success answer of /api/generate-recommendations has the exact
\* RecommendationSet shape, strings included.
C5_SuccessConforms ==
  (Responded(RecommendationsEndpoint) /\ response.status = 200) =>
    ConformsExactly(json_loads(response.body).v)

\* C6: every request, on every endpoint, ends in a success payload or in a
\* JSON object with the single string 'error' and status 500.
C6_NoUncaughtFailure ==
  pc = "responded" =>
    \/ IsSuccess(response)
    \/ response.status = 500 /\ IsErrorBody(response)

\* the assessment results of the request, when its body is an object
InputResults == DictGet(request.json, "assessment_results", List(<<>>)).l
CategoryOf(result) == Item(result, "category").s
OfCategory(results, c) == SelectSeq(results, LAMBDA r : CategoryOf(r) = c)

\* C7: grouping by category gives one key per distinct category, each key
\* holding all and only the results of its category in input order, and each
\* result lies in exactly one group.
C7_Grouping ==
  (/\ Responded(RecommendationsEndpoint)
   /\ IsDict(request.json)
   /\ \A i \in 1..Len(InputResults) : HasKey(InputResults[i], "category")) =>
    LET cats == {CategoryOf(InputResults[i]) : i \in 1..Len(InputResults)}
    IN /\ IsDict(results_by_category)
       /\ Keys(results_by_category) = cats
       /\ Len(results_by_category.l) = Cardinality(cats)
       /\ \A c \in cats :
            Item(results_by_category, c) = List(OfCategory(InputResults, c))
       /\ \A i \in 1..Len(InputResults) :
            Cardinality({j \in 1..Len(results_by_category.l) :
                           \E n \in 1..Len(results_by_category.l[j].l[1].l) :
                             results_by_category.l[j].l[1].l[n] = InputResults[i]}) = 1

C7_Witness ==
  /\ Responded(RecommendationsEndpoint)
  /\ IsDict(request.json)
  /\ InputResults = <<Result("Teaching", "2"), Result("Teaching", "4")>>
  /\ results_by_category =
       Dict(<<Pair("Teaching", List(<<Result("Teaching", "2"), Result("Teaching", "4")>>))>>)

LLMEndpoints == {RecommendationsEndpoint, "/api/generate-report", "/api/ask"}

\* C8: a request calls the completion API at most once; a failed call or a
\* failed validation is answered without a second call, and every answer
\* that rests on the provider rests on exactly one call.
C8_SingleAttempt ==
  pc = "responded" =>
    /\ Calls <= 1
    /\ (completion = NoCall) <=> (Calls = 0)
    /\ CallFailed => (Calls = 1 /\ response.status = 500)
    /\ (request.endpoint = RecommendationsEndpoint /\ TextReturned
          /\ response.status = 500) => Calls = 1
    /\ (request.endpoint \in LLMEndpoints /\ IsSuccess(response)) => Calls = 1
    /\ request.endpoint \notin LLMEndpoints => Calls = 0

C8_Witness ==
  /\ Responded(RecommendationsEndpoint)
  /\ CallFailed
  /\ Calls = 1
  /\ trace = <<"prompt", "call", "respond">>

\* C9: when the completion call fails, the answer has status 500 and its
\* 'error' string is the provider's message; no success payload is produced.
C9_ProviderMessage ==
  (pc = "responded" /\ CallFailed) =>
    /\ request.endpoint \in LLMEndpoints
    /\ IsError(response, completion.exc)
    /\ ~IsSuccess(response)

C9_Witness ==
  /\ Responded("/api/generate-report")
  /\ completion = Raised("Connection error.")
  /\ IsError(response, "Connection error.")

\* the institution_info the templating reads, and whether the request
\* reaches the template with an InstitutionInfo mapping
TemplateEndpoints == {"/api/generate-pdf", "/api/share-report"}
InfoSent == DictGet(request.json, "institution_info", Dict(<<>>))
Templated ==
  /\ pc = "responded"
  /\ request.endpoint \in TemplateEndpoints
  /\ IsDict(request.json)
  /\ IsDict(InfoSent)
  /\ request.endpoint = "/api/share-report" =>
       DictGet(request.json, "report", Str("")).t # "null"
\* the slots of the document: title, header h2, header p
SlotKey(i) == IF i = 3 THEN "institutionName" ELSE "programName"
SlotDefault(i) ==
  CASE i = 1 -> "Program" [] i = 2 -> "Program Name" [] i = 3 -> "Institution Name"

\* C10 as stated: every missing field of the InstitutionInfo is rendered as
\* '-' in title and header, and the assembly does not fail.
C10_DashPlaceholder ==
  Templated =>
    /\ IsSuccess(response)
    /\ \A i \in 1..3 : ~HasKey(InfoSent, SlotKey(i)) => complete_html.l[i] = Str("-")

\* C10 amended: every missing field is rendered as the default text of its
\* slot ('Program' in the title, 'Program Name' and 'Institution Name' in
\* the header), every present field as its value, the document is answered
\* with status 200 under 'html_report', and the assembly does not fail.
C10_TemplateDefaults ==
  Templated =>
    /\ IsSuccess(response)
    /\ response.body = Obj(<<Pair("html_report", complete_html)>>)
    /\ \A i \in 1..3 :
         complete_html.l[i] =
           IF HasKey(InfoSent, SlotKey(i)) THEN Item(InfoSent, SlotKey(i))
           ELSE Str(SlotDefault(i))

C10_Witness ==
  /\ Templated
  /\ request.endpoint = "/api/generate-pdf"
  /\ Keys(InfoSent) = {"institutionName"}
  /\ complete_html.l[1] = Str("Program")
  /\ complete_html.l[2] = Str("Program Name")
  /\ complete_html.l[3] = Str("Prince Sultan University")

ReportEndpoint == "/api/generate-report"
\* the field of the i-th line of Section A of the prompt
PromptField(i) ==
  CASE i = 1 -> "institutionName" [] i = 2 -> "programName" [] i = 3 -> "yearEstablished"
    [] i = 4 -> "totalGraduates" [] i = 5 -> "firstGraduatingBatch"
    [] i = 6 -> "currentStudents" [] i = 7 -> "facultyMembers" [] i = 8 -> "programTracks"
    [] i = 9 -> "creditHours"

\* C11: for every /api/generate-report request with an object body, whatever
\* its institution_info (absent, empty, null, any fields missing), the prompt
\* is built, the request does not fail in the Prompt Builder, and every
\* missing field stands in the prompt as '-'.
C11_PromptAlwaysBuilt ==
  (Responded(ReportEndpoint) /\ IsDict(request.json)) =>
    /\ prompt.t = "fstr"
    /\ Len(prompt.l) = 9
    /\ \A i \in 1..9 : ~HasKey(InfoSent, PromptField(i)) => prompt.l[i] = Str("-")
    /\ ~IsError(response, NoGet)

PdfEndpoint == "/api/generate-pdf"
\* the body is a JSON object with the single field 'html_report', a document
IsHtmlReport(r) ==
  /\ r.mimetype = "application/json"
  /\ r.body.t = "obj"
  /\ Len(r.body.l) = 1
  /\ r.body.l[1].s = "html_report"
  /\ r.body.l[1].l[1].t = "fstr"

\* C12 as stated: /api/generate-pdf answers with a PDF document
\* (application/pdf) or with an {error} body and status 500.
C12_AnswersPdf ==
  Responded(PdfEndpoint) =>
    \/ response.status = 200 /\ response.mimetype = "application/pdf"
    \/ response.status = 500 /\ IsErrorBody(response)

\* C12 amended: /api/generate-pdf answers with status 200 and the JSON
\* object {html_report: the assembled HTML document}, no PDF being rendered,
\* or with an {error} body and status 500.
C12_AnswersHtmlReport ==
  Responded(PdfEndpoint) =>
    \/ /\ response.status = 200
       /\ IsHtmlReport(response)
       /\ response.body.l[1].l[1] = complete_html
       /\ trace = <<"assemble", "respond">>
    \/ /\ response.status = 500
       /\ IsErrorBody(response)
       /\ complete_html = NoText

C12_Witness ==
  /\ Responded(PdfEndpoint)
  /\ response.status = 200
  /\ IsHtmlReport(response)
  /\ HasKey(request.json, "html_content")
  /\ response.body.l[1].l[1].l[5] = Str("<h1>Report</h1>")

ShareEndpoint == "/api/share-report"
\* the steps a, b occur in the trace, a before b
Before(a, b) ==
  \E i, j \in 1..Len(trace) : i < j /\ trace[i] = a /\ trace[j] = b
Step(a) == \E i \in 1..Len(trace) : trace[i] = a

\* C13 as stated: a success answer of /api/share-report comes after the
\* document was assembled, rendered to PDF and sent by the Notifier, in
\* this order.
C13_NotifiedBeforeSuccess ==
  (Responded(ShareEndpoint) /\ IsSuccess(response)) =>
    /\ Before("assemble", "render")
    /\ Before("render", "notify")
    /\ Before("notify", "respond")

\* C13 amended: /api/share-report converts the Markdown report to HTML,
\* then assembles the document around it, then answers with the document
\* under 'html_report'; it has no PDF Renderer step and no Notifier step,
\* with or without an 'email' in the request.
C13_HtmlOnlyOrder ==
  Responded(ShareEndpoint) =>
    /\ ~Step("render")
    /\ ~Step("notify")
    /\ trace[Len(trace)] = "respond"
    /\ IsSuccess(response) =>
         /\ trace = <<"markdown", "assemble", "respond">>
         /\ complete_html.l[5] = markdown(DictGet(request.json, "report", Str("")))
         /\ IsHtmlReport(response)
         /\ response.body.l[1].l[1] = complete_html

C13_Witness ==
  /\ Responded(ShareEndpoint)
  /\ IsSuccess(response)
  /\ HasKey(request.json, "email")
  /\ trace = <<"markdown", "assemble", "respond">>
  /\ complete_html.l[5] = Node("html", "# Report", <<>>)

\* the service as it stands after startup, the history flag apart
AsStarted ==
  /\ pc = "idle"
  /\ request = NoRequest
  /\ completion = NoCall
  /\ response = NoResponse
  /\ log = <<>>
  /\ trace = <<>>
  /\ results_by_category = Dict(<<>>)
  /\ prompt = NoText
  /\ complete_html = NoText
  /\ ASSESSMENT_QUESTIONS = QuestionBank

\* C14: a request that ends in status 500 leaves the service running and in
\* the very state it had after startup, so that every later request is
\* handled as if the failed one had never been made.
C14_FailureLeavesNoTrace ==
  [][(pc = "responded" /\ response.status = 500) => AsStarted']_vars

\* a request answered with success after an earlier one had failed
C14_Witness ==
  /\ Responded(PdfEndpoint)
  /\ failed_before
  /\ response.status = 200
  /\ IsHtmlReport(response)
  /\ ASSESSMENT_QUESTIONS = QuestionBank

ContentAbsent ==
  /\ pc = "responded"
  /\ IsDict(request.json)
  /\ IsDict(InfoSent)
  /\ \/ request.endpoint = PdfEndpoint /\ ~HasKey(request.json, "html_content")
     \/ /\ request.endpoint = ShareEndpoint
        /\ DictGet(request.json, "report", None).t = "null"

\* C16: with the content absent the document is still produced, and its
\* report-content block is empty.
C16_AbsentContentIsEmpty ==
  ContentAbsent =>
    /\ IsSuccess(response)
    /\ IsHtmlReport(response)
    /\ complete_html.l[5] = Str("")

AskEndpoint == "/api/ask"
\* the field under which an endpoint hands the provider's text on
TextKey == IF request.endpoint = ReportEndpoint THEN "report" ELSE "response"

\* C17: /api/generate-recommendations builds the prompt, calls the provider,
\* validates the text that call returned and only then answers; a success
\* is never sent unless that text passed validation. /api/generate-report
\* and /api/ask hand the provider's text on without any validation step.
C17_ValidatedBeforeSuccess ==
  pc = "responded" =>
    /\ (request.endpoint = RecommendationsEndpoint /\ response.status = 200) =>
         /\ trace = <<"prompt", "call", "validate", "respond">>
         /\ TextReturned
         /\ Parsed.exc = ""
         /\ WellFormed(Parsed.v)
         /\ PyEq(json_loads(response.body).v, Parsed.v)
    /\ Step("validate") =>
         /\ request.endpoint = RecommendationsEndpoint
         /\ TextReturned
         /\ Before("prompt", "call")
         /\ Before("call", "validate")
         /\ Before("validate", "respond")
    /\ (request.endpoint \in {ReportEndpoint, AskEndpoint} /\ TextReturned) =>
         /\ trace = <<"prompt", "call", "respond">>
         /\ IsSuccess(response)
         /\ response.body = Obj(<<Pair(TextKey, completion.content)>>)

C17_Witness ==
  /\ Responded(RecommendationsEndpoint)
  /\ response.status = 200
  /\ trace = <<"prompt", "call", "validate", "respond">>
  /\ Parsed.exc = ""
  /\ Item(Parsed.v, "recommendations") = List(<<Decode(GoodB), Decode(GoodA)>>)
  /\ Item(Parsed.v, "evidence") = List(<<Str("e"), Num("1")>>)

\* what the content block holds, told from the request alone
ContentSent ==
  IF request.endpoint = PdfEndpoint
    THEN IF HasKey(request.json, "html_content")
           THEN Item(request.json, "html_content") ELSE Str("None")
    ELSE markdown(DictGet(request.json, "report", Str("")))

\* C18: the document of /api/generate-pdf and of /api/share-report is a
\* function of the endpoint, the content and the InstitutionInfo of the
\* request, the date slot apart: whatever was handled before, equal requests
\* on the same date give equal documents, and only the date slot can differ.
C18_DocumentFromRequestAndDate ==
  (pc = "responded" /\ request.endpoint \in TemplateEndpoints /\ response.status = 200) =>
    /\ complete_html.t = "fstr"
    /\ Len(complete_html.l) = 5
    /\ complete_html.l[4] \in {Str(d) : d \in Dates}
    /\ \A i \in 1..3 :
         complete_html.l[i] =
           IF HasKey(InfoSent, SlotKey(i)) THEN Item(InfoSent, SlotKey(i))
           ELSE Str(SlotDefault(i))
    /\ complete_html.l[5] = ContentSent
    /\ response.body = Obj(<<Pair("html_report", complete_html)>>)

\* a document assembled after an earlier request had failed
C18_Witness ==
  /\ Responded(ShareEndpoint)
  /\ failed_before
  /\ response.status = 200
  /\ Keys(InfoSent) = {"institutionName", "programName"}
  /\ complete_html.l[4] = Str("November 03, 2026")
  /\ complete_html.l[5] = Node("html", "# Report", <<>>)

====
